---- MODULE Spec2Model ----
(***************************************************************************)
(* The live execution event stream of the workflow dashboard:              *)
(*   - the zustand store useWorkflowStore (the snapshot),                  *)
(*   - the hook useWebsocket (transport callbacks and handleEvent),        *)
(*   - the pages that mount the hook and start a run (ExecutionPage,       *)
(*     PromptBuilder.handleGenerate, the router of App).                   *)
(* JavaScript values are encoded as follows: the string "undefined" is     *)
(* undefined, "null" is null, an optional number is a record               *)
(* [defined, n], an optional payload object is a record with a flag        *)
(* `defined`.                                                              *)
(***************************************************************************)
EXTENDS Integers, Sequences, FiniteSets, TLC

VARIABLES store, page, sockets, wsCurrent, timers, runs, sent, last, notified, server

vars == <<store, page, sockets, wsCurrent, timers, runs, sent, last, notified, server>>

(***************************************************************************)
(* Bounds of the model.                                                    *)
(***************************************************************************)
\* frames the producer sends in one behaviour of the reducer specification
MaxMsgs == 3
\* frames the producer sends in one behaviour of the page-level specification
MaxAppMsgs == 2
\* frames in flight on one socket
MaxInflight == 1
\* workflow runs started by handleGenerate
MaxRuns == 2
\* pending setTimeout callbacks of ExecutionPage
MaxTimers == 1
\* WebSocket objects created in one behaviour
MaxSockets == 2

(***************************************************************************)
(* JavaScript values.                                                      *)
(***************************************************************************)
Undefined == "undefined"
Null == "null"

Num(n) == [defined |-> TRUE, n |-> n]
UndefNum == [defined |-> FALSE, n |-> 0]

\* truthiness of a string-or-undefined value
Truthy(v) == v \notin {Undefined, Null, ""}
\* truthiness of a number-or-undefined value: 0 is falsy
TruthyNum(v) == v.defined /\ v.n # 0

(***************************************************************************)
(* Frames on the wire.  A frame is the text of one websocket message:      *)
(* text that is not JSON, the JSON texts null and 42, or a JSON object     *)
(* with a type, possibly a payload, and the producer's id, workflow_id     *)
(* and timestamp (a number: ISO timestamps compare as their instants).     *)
(***************************************************************************)
NoData == [defined |-> FALSE, entries |-> <<>>]
Data(k, v) == [defined |-> TRUE, entries |-> <<<<k, v>>>>]
Data2(k1, v1, k2, v2) == [defined |-> TRUE, entries |-> <<<<k1, v1>>, <<k2, v2>>>>]

EmptyPayload ==
    [defined |-> TRUE, status |-> Undefined, percent_complete |-> UndefNum,
     agent_id |-> Undefined, agent_name |-> Undefined, role |-> Undefined,
     thought |-> Undefined, tool_name |-> Undefined, data_extracted |-> NoData,
     output |-> Undefined, results |-> Undefined]
NoPayload == [EmptyPayload EXCEPT !.defined = FALSE]

Obj(type, payload) ==
    [text |-> "object", type |-> type, payload |-> payload,
     id |-> "evt_1", workflow_id |-> "workflow_1", timestamp |-> 1]
\* the envelope f as the producer stamps it with id, workflow_id and timestamp
Stamped(f, id, workflow_id, timestamp) ==
    [f EXCEPT !.id = id, !.workflow_id = workflow_id, !.timestamp = timestamp]
NotObj(text) ==
    [text |-> text, type |-> Undefined, payload |-> NoPayload,
     id |-> Undefined, workflow_id |-> Undefined, timestamp |-> 0]
BadText == NotObj("garbage")
JsonNull == NotObj("null")
JsonNumber == NotObj("number")

DeclaredTypes ==
    {"status_change", "agent_start", "agent_thinking", "tool_call",
     "tool_result", "agent_complete", "workflow_complete", "error"}

StatusChange(s, p) == Obj("status_change", [EmptyPayload EXCEPT !.status = s, !.percent_complete = p])
AgentStart(a, n, r) == Obj("agent_start", [EmptyPayload EXCEPT !.agent_id = a, !.agent_name = n, !.role = r])
AgentThinking(a, t) == Obj("agent_thinking", [EmptyPayload EXCEPT !.agent_id = a, !.thought = t])
ToolCall(a, t) == Obj("tool_call", [EmptyPayload EXCEPT !.agent_id = a, !.tool_name = t])
ToolResult(a, d) == Obj("tool_result", [EmptyPayload EXCEPT !.agent_id = a, !.tool_name = "search_web", !.data_extracted = d])
AgentComplete(a, o) == Obj("agent_complete", [EmptyPayload EXCEPT !.agent_id = a, !.output = o])
WorkflowComplete(r) == Obj("workflow_complete", [EmptyPayload EXCEPT !.results = r])
ErrorEvent(a) == Obj("error", [EmptyPayload EXCEPT !.agent_id = a])

\* the frames the reducer is exercised with
Frames ==
    { BadText, JsonNull, JsonNumber,
      Obj("status_change", NoPayload), Obj("workflow_complete", NoPayload),
      Obj("agent_start", NoPayload), Obj("heartbeat", EmptyPayload),
      StatusChange("initiated", Num(0)), StatusChange("running", Num(25)),
      Stamped(StatusChange("paused", UndefNum), "evt_0", "workflow_1", 0),
      AgentStart("agent_1", "ResearchAgent", "Researcher"),
      AgentStart("agent_1", "WriterAgent", "Writer"),
      AgentThinking("agent_1", "Searching"),
      AgentThinking("agent_2", "Drafting"),
      Stamped(ToolCall("agent_1", "search_web"), "evt_1", "workflow_0", 1),
      ToolResult("agent_1", Data("topic", "MetaFlow")),
      ToolResult("agent_2", Data2("topic", "B", "source", "web")),
      ToolResult("agent_1", NoData),
      AgentComplete("agent_1", "Found info"),
      WorkflowComplete("summary1"), WorkflowComplete("summary2"),
      ErrorEvent("agent_1"), ErrorEvent("agent_2"), ErrorEvent(Undefined) }

\* the frames the page-level specification is exercised with
AppFrames ==
    { StatusChange("running", Num(25)),
      AgentStart("agent_1", "ResearchAgent", "Researcher"),
      ToolResult("agent_1", Data("topic", "MetaFlow")),
      WorkflowComplete("summary1") }

(***************************************************************************)
(* The store (workflowStore).                                              *)
(***************************************************************************)
InitialStore ==
    [workflowId |-> Null, status |-> "idle", progress |-> 0,
     agents |-> <<>>, logs |-> <<>>, results |-> Null,
     partialResults |-> <<>>, connected |-> FALSE]

setWorkflowId(s, id) == [s EXCEPT !.workflowId = id]
setStatus(s, status) == [s EXCEPT !.status = status]
setProgress(s, progress) == [s EXCEPT !.progress = progress]

Placeholder(agentId) ==
    [id |-> agentId, name |-> "Unknown Agent", role |-> "Worker",
     status |-> "idle", thought |-> Undefined, lastToolCall |-> Undefined,
     output |-> Undefined, logs |-> <<>>]

\* the spread as it would be if the update replaced the record
Spread_Replace(currentAgent, update) ==
    [f \in DOMAIN currentAgent |->
        IF f \in DOMAIN update THEN update[f] ELSE Placeholder(currentAgent.id)[f]]

\* { ...currentAgent, ...update }: update is a function on the fields it names
Spread(currentAgent, update) ==
    [f \in DOMAIN currentAgent |->
        IF f \in DOMAIN update THEN update[f] ELSE currentAgent[f]]

\* updateAgent as it would be if it applied the update to every agent
updateAgent_Broadcast(s, agentId, update) ==
    [s EXCEPT !.agents =
        [a \in DOMAIN s.agents \cup {agentId} |->
            Spread(IF a \in DOMAIN s.agents THEN s.agents[a] ELSE Placeholder(a), update)]]

\* updateAgent as it would be if it updated only agents it already holds
updateAgent_KnownOnly(s, agentId, update) ==
    IF agentId \notin DOMAIN s.agents THEN s
    ELSE [s EXCEPT !.agents[agentId] = Spread(s.agents[agentId], update)]

updateAgent(s, agentId, update) ==
    LET currentAgent ==
            IF agentId \in DOMAIN s.agents THEN s.agents[agentId]
            ELSE Placeholder(agentId)
    IN  [s EXCEPT !.agents =
            [a \in DOMAIN s.agents \cup {agentId} |->
                IF a = agentId THEN Spread(currentAgent, update)
                ELSE s.agents[a]]]

\* addLog as it would be if it put the new entry first
addLog_Prepend(s, log) == [s EXCEPT !.logs = <<log>> \o s.logs]

\* addLog as it would be if it kept only the newest entry
addLog_KeepLast(s, log) == [s EXCEPT !.logs = <<log>>]

addLog(s, log) == [s EXCEPT !.logs = Append(s.logs, log)]
setResults(s, results) == [s EXCEPT !.results = results]

\* updatePartialResults as it would be without the spread of the previous map
updatePartialResults_Replace(s, key, value) ==
    [s EXCEPT !.partialResults = (key :> value)]

updatePartialResults(s, key, value) ==
    [s EXCEPT !.partialResults =
        [k \in DOMAIN s.partialResults \cup {key} |->
            IF k = key THEN value ELSE s.partialResults[k]]]

setConnected(s, connected) == [s EXCEPT !.connected = connected]

(***************************************************************************)
(* useWebsocket: the reducer handleEvent.  The result is the store after   *)
(* the calls that were made and whether a TypeError was raised (reading a  *)
(* property of null or of an undefined payload).                           *)
(***************************************************************************)
Returned(s) == [store |-> s, threw |-> FALSE]
Thrown(s) == [store |-> s, threw |-> TRUE]

RECURSIVE forEachEntry(_, _)
forEachEntry(s, entries) ==
    IF entries = <<>> THEN s
    ELSE forEachEntry(updatePartialResults(s, Head(entries)[1], Head(entries)[2]),
                      Tail(entries))

\* the cases of the switch on event.type; s1 is the store after addLog, p the payload
\* status_change as it would be if only the first message of a connection
\* could set the status (a counter outside the store)
caseStatusChange_FirstOnly(s1, p) ==
    IF sent > 1 THEN s1
    ELSE LET s2 == setStatus(s1, p.status)
         IN  IF TruthyNum(p.percent_complete)
             THEN setProgress(s2, p.percent_complete.n)
             ELSE s2

caseStatusChange(s1, p) ==
    LET s2 == setStatus(s1, p.status)
    IN  IF TruthyNum(p.percent_complete)
        THEN setProgress(s2, p.percent_complete.n)
        ELSE s2

\* agent_start as it would be if a second agent_start for a known id were ignored
caseAgentStart_KeepFirst(s1, p) ==
    IF p.agent_id \in DOMAIN s1.agents THEN s1
    ELSE updateAgent(s1, p.agent_id,
            [name |-> p.agent_name, role |-> p.role, status |-> "running"])

caseAgentStart(s1, p) ==
    updateAgent(s1, p.agent_id,
        [name |-> p.agent_name, role |-> p.role, status |-> "running"])

\* agent_thinking as it would be if a finished agent kept its final status
caseAgentThinking_Clamped(s1, p) ==
    IF /\ p.agent_id \in DOMAIN s1.agents
       /\ s1.agents[p.agent_id].status \in {"success", "failed"}
    THEN updateAgent(s1, p.agent_id, [thought |-> p.thought])
    ELSE updateAgent(s1, p.agent_id, [status |-> "thinking", thought |-> p.thought])

caseAgentThinking(s1, p) ==
    updateAgent(s1, p.agent_id, [status |-> "thinking", thought |-> p.thought])

caseToolCall(s1, p) ==
    updateAgent(s1, p.agent_id, [lastToolCall |-> p.tool_name])

caseToolResult(s1, p) ==
    IF p.data_extracted.defined
    THEN forEachEntry(s1, p.data_extracted.entries)
    ELSE s1

\* agent_complete as it would be if it also stored the output as the results
caseAgentComplete_SetsResults(s1, p) ==
    setResults(updateAgent(s1, p.agent_id, [status |-> "success", output |-> p.output]),
               p.output)

caseAgentComplete(s1, p) ==
    updateAgent(s1, p.agent_id, [status |-> "success", output |-> p.output])

\* workflow_complete as it would be if it also completed the progress bar
caseWorkflowComplete_Sets100(s1, p) ==
    setProgress(setResults(setStatus(s1, "completed"), p.results), 100)

caseWorkflowComplete(s1, p) ==
    setResults(setStatus(s1, "completed"), p.results)

\* error as it would be if it also failed the workflow
caseError_FailsWorkflow(s1, p) ==
    IF Truthy(p.agent_id)
    THEN setStatus(updateAgent(s1, p.agent_id, [status |-> "failed"]), "failed")
    ELSE setStatus(s1, "failed")

caseError(s1, p) ==
    IF Truthy(p.agent_id)
    THEN updateAgent(s1, p.agent_id, [status |-> "failed"])
    ELSE s1

\* the store in which a case is left when reading a property of the undefined
\* payload raises: workflow_complete has called setStatus before it reads it
caseThrows(s1, type) ==
    IF type = "workflow_complete" THEN setStatus(s1, "completed") ELSE s1

handleEvent(s, event) ==
    LET s1 == addLog(s, event)
        p == event.payload
    IN  IF event.kind = "null" THEN Thrown(s1)
        ELSE IF event.kind # "object" \/ event.type \notin DeclaredTypes THEN Returned(s1)
        ELSE IF ~p.defined THEN Thrown(caseThrows(s1, event.type))
        ELSE CASE event.type = "status_change" -> Returned(caseStatusChange(s1, p))
               [] event.type = "agent_start" -> Returned(caseAgentStart(s1, p))
               [] event.type = "agent_thinking" -> Returned(caseAgentThinking(s1, p))
               [] event.type = "tool_call" -> Returned(caseToolCall(s1, p))
               [] event.type = "tool_result" -> Returned(caseToolResult(s1, p))
               [] event.type = "agent_complete" -> Returned(caseAgentComplete(s1, p))
               [] event.type = "workflow_complete" -> Returned(caseWorkflowComplete(s1, p))
               [] event.type = "error" -> Returned(caseError(s1, p))

\* the set() calls handleEvent makes on the store, in order: zustand notifies
\* every subscriber synchronously at each of them
setCalls(event) ==
    LET p == event.payload
    IN  IF event.kind # "object" \/ event.type \notin DeclaredTypes THEN <<"addLog">>
        ELSE IF ~p.defined THEN
            IF event.type = "workflow_complete" THEN <<"addLog", "setStatus">>
            ELSE <<"addLog">>
        ELSE CASE event.type = "status_change" ->
                    IF TruthyNum(p.percent_complete)
                    THEN <<"addLog", "setStatus", "setProgress">>
                    ELSE <<"addLog", "setStatus">>
               [] event.type \in {"agent_start", "agent_thinking", "tool_call", "agent_complete"} ->
                    <<"addLog", "updateAgent">>
               [] event.type = "tool_result" ->
                    IF p.data_extracted.defined
                    THEN <<"addLog">> \o [i \in DOMAIN p.data_extracted.entries |-> "updatePartialResults"]
                    ELSE <<"addLog">>
               [] event.type = "workflow_complete" -> <<"addLog", "setStatus", "setResults">>
               [] event.type = "error" ->
                    IF Truthy(p.agent_id) THEN <<"addLog", "updateAgent">> ELSE <<"addLog">>

\* JSON.parse(event.data): throws on text that is not JSON
JSONparse(frame) ==
    [ok |-> frame.text # "garbage",
     data |-> [kind |-> frame.text, type |-> frame.type, payload |-> frame.payload,
               id |-> frame.id, workflow_id |-> frame.workflow_id,
               timestamp |-> frame.timestamp]]

\* onmessage as it would be if it dropped an envelope older than the last one
onmessage_DropsStale(s, frame) ==
    LET parsed == JSONparse(frame)
    IN  IF ~parsed.ok THEN [store |-> s, threw |-> FALSE, parsed |-> FALSE]
        ELSE IF s.logs # <<>> /\ frame.timestamp < s.logs[Len(s.logs)].timestamp
             THEN [store |-> addLog(s, parsed.data), threw |-> FALSE, parsed |-> TRUE]
        ELSE LET r == handleEvent(s, parsed.data)
             IN  [store |-> r.store, threw |-> r.threw, parsed |-> TRUE]

\* onmessage as it would be if it applied the envelopes of its own run only
onmessage_FiltersRun(s, frame) ==
    LET parsed == JSONparse(frame)
    IN  IF ~parsed.ok THEN [store |-> s, threw |-> FALSE, parsed |-> FALSE]
        ELSE IF frame.text = "object" /\ frame.workflow_id # s.workflowId
             THEN [store |-> addLog(s, parsed.data), threw |-> FALSE, parsed |-> TRUE]
        ELSE LET r == handleEvent(s, parsed.data)
             IN  [store |-> r.store, threw |-> r.threw, parsed |-> TRUE]

\* ws.current.onmessage: try { handleEvent(JSON.parse(event.data)) } catch { log }
onmessage(s, frame) ==
    LET parsed == JSONparse(frame)
    IN  IF ~parsed.ok THEN [store |-> s, threw |-> FALSE, parsed |-> FALSE]
        ELSE LET r == handleEvent(s, parsed.data)
             IN  [store |-> r.store, threw |-> r.threw, parsed |-> TRUE]

\* the notifications the store's subscribers get while onmessage runs
onmessageNotifies(frame) ==
    IF JSONparse(frame).ok THEN setCalls(JSONparse(frame).data) ELSE <<>>

\* onclose as it would be if a lost connection failed the workflow
onclose_FailsWorkflow(s) == setStatus(setConnected(s, FALSE), "failed")

\* onclose as it would be if a lost connection dropped the agents
onclose_ClearsAgents(s) == [setConnected(s, FALSE) EXCEPT !.agents = <<>>]

onopen(s) == setConnected(s, TRUE)
onclose(s) == setConnected(s, FALSE)

(***************************************************************************)
(* The transport: the WebSocket objects created by the hook.               *)
(***************************************************************************)
NoUrl == Null

\* ExecutionPage: workflowId ? `ws://localhost:8080/ws/workflow/${workflowId}` : null
UrlOf(workflowId) ==
    IF Truthy(workflowId) THEN "ws://localhost:8080/ws/workflow/" \o workflowId ELSE NoUrl

NewWebSocket(url) == [url |-> url, readyState |-> "CONNECTING", inflight |-> <<>>]

\* close() as it would be if it had no effect on an open or connecting socket
close_Ignored(sock) == sock

\* WebSocket.close(): starts the closing handshake unless already closing or closed
close(sock) ==
    IF sock.readyState \in {"CLOSING", "CLOSED"} THEN sock
    ELSE [sock EXCEPT !.readyState = "CLOSING"]

\* the effect as it would be without its test of the url
Effect_ConnectsAnyway(socks, url) ==
    [sockets |-> Append(socks, NewWebSocket(url)), wsCurrent |-> Len(socks) + 1]

\* the body of the effect of useWebsocket: the sockets and ws.current after it;
\* if (!url) return: null and the empty string are no endpoint
Effect(socks, url) ==
    IF ~Truthy(url) THEN [sockets |-> socks, wsCurrent |-> 0]
    ELSE [sockets |-> Append(socks, NewWebSocket(url)), wsCurrent |-> Len(socks) + 1]

\* the effect as it would be if it returned no cleanup
Cleanup_Forgotten(socks, cur) == socks

\* the cleanup the effect returned: ws.current?.close()
Cleanup(socks, cur) ==
    IF cur = 0 THEN socks ELSE [socks EXCEPT ![cur] = close(socks[cur])]

NoFrame == NotObj("none")
Did(op, sock, frame, threw) == [op |-> op, sock |-> sock, frame |-> frame, threw |-> threw]

(***************************************************************************)
(* The pages.  ExecutionPage mounts useWebsocket with the url of the       *)
(* store's workflowId, and schedules navigate('/results') whenever it      *)
(* sees status 'completed'.                                                *)
(***************************************************************************)
Routes == {"home", "execution", "results"}

\* 'workflow_' + Date.now(): the clock differs from one run to the next
NewWorkflowId(n) == "workflow_" \o ToString(n)

\* timers after ExecutionPage's effect on [status] ran for status s
StatusEffect(s, t) == IF s.status = "completed" THEN t + 1 ELSE t

\* the page p is entered from page `from`: leaving ExecutionPage runs the cleanup
\* of the hook, entering it runs the hook's effect and the status effect
Enter(p, s) ==
    LET left == IF page = "execution" /\ p # "execution"
                THEN [sockets |-> Cleanup(sockets, wsCurrent), wsCurrent |-> 0]
                ELSE [sockets |-> sockets, wsCurrent |-> wsCurrent]
        entered == IF p = "execution" /\ page # "execution"
                   THEN Effect(left.sockets, UrlOf(s.workflowId))
                   ELSE left
    IN  /\ page' = p
        /\ sockets' = entered.sockets
        /\ wsCurrent' = entered.wsCurrent
        /\ timers' = IF p = "execution" /\ page # "execution"
                     THEN StatusEffect(s, timers) ELSE timers
        /\ timers' <= MaxTimers
        /\ Len(sockets') <= MaxSockets

\* the state of the mock server for one connection: the index of the next
\* scripted event, whether its interval is set, whether it has seen the close
NoServer == [step |-> 0, interval |-> FALSE, closed |-> FALSE]
Connected == [step |-> 0, interval |-> TRUE, closed |-> FALSE]

Init ==
    /\ store = InitialStore
    /\ page = "home"
    /\ sockets = <<>>
    /\ wsCurrent = 0
    /\ timers = 0
    /\ runs = 0
    /\ sent = 0
    /\ last = Did("init", 0, NoFrame, FALSE)
    /\ notified = <<>>
    /\ server = NoServer

\* PromptBuilder.handleGenerate
handleGenerate ==
    /\ page = "home"
    /\ runs < MaxRuns
    /\ runs' = runs + 1
    /\ store' = setWorkflowId(store, NewWorkflowId(runs + 1))
    /\ Enter("execution", store')
    /\ last' = Did("handleGenerate", 0, NoFrame, FALSE)
    /\ notified' = <<"setWorkflowId">>
    /\ UNCHANGED <<sent, server>>

\* the user moves to another route of the application (history, links)
UserNavigate(p) ==
    /\ p # page
    /\ Enter(p, store)
    /\ last' = Did("navigate", 0, NoFrame, FALSE)
    /\ notified' = <<>>
    /\ UNCHANGED <<store, runs, sent, server>>

\* the callback of setTimeout(() => navigate('/results'), 1000)
TimerFire ==
    /\ timers > 0
    /\ IF page = "results"
       THEN /\ timers' = timers - 1
            /\ UNCHANGED <<page, sockets, wsCurrent>>
       ELSE /\ page' = "results"
            /\ sockets' = IF page = "execution" THEN Cleanup(sockets, wsCurrent) ELSE sockets
            /\ wsCurrent' = 0
            /\ timers' = timers - 1
    /\ last' = Did("timer", 0, NoFrame, FALSE)
    /\ notified' = <<>>
    /\ UNCHANGED <<store, runs, sent, server>>

\* the connection of socket i is established: its onopen runs
SocketOpen(i) ==
    /\ sockets[i].readyState = "CONNECTING"
    /\ sockets' = [sockets EXCEPT ![i].readyState = "OPEN"]
    /\ store' = onopen(store)
    /\ last' = Did("open", i, NoFrame, FALSE)
    /\ notified' = <<"setConnected">>
    /\ UNCHANGED <<page, wsCurrent, timers, runs, sent, server>>

\* the close of a socket as it would be if the hook reconnected by itself
SocketClosed_Reconnects(i) ==
    /\ sockets[i].readyState # "CLOSED"
    /\ IF Len(sockets) < MaxSockets
       THEN /\ sockets' = Append([sockets EXCEPT ![i].readyState = "CLOSED"],
                                 NewWebSocket(sockets[i].url))
            /\ wsCurrent' = Len(sockets) + 1
       ELSE /\ sockets' = [sockets EXCEPT ![i].readyState = "CLOSED"]
            /\ wsCurrent' = wsCurrent
    /\ store' = onclose(store)
    /\ last' = Did("close", i, NoFrame, FALSE)
    /\ notified' = <<"setConnected">>
    /\ UNCHANGED <<page, timers, runs, sent, server>>

\* the connection of socket i is closed (handshake done, refused, or lost):
\* its onclose runs
SocketClosed(i) ==
    /\ sockets[i].readyState # "CLOSED"
    /\ sockets' = [sockets EXCEPT ![i].readyState = "CLOSED"]
    /\ store' = onclose(store)
    /\ last' = Did("close", i, NoFrame, FALSE)
    /\ notified' = <<"setConnected">>
    /\ UNCHANGED <<page, wsCurrent, timers, runs, sent, server>>

\* the producer sends a frame on connection i
ServerSend(i, frame) ==
    /\ sockets[i].readyState \in {"OPEN", "CLOSING"}
    /\ Len(sockets[i].inflight) < MaxInflight
    /\ sent < MaxMsgs
    /\ sent' = sent + 1
    /\ sockets' = [sockets EXCEPT ![i].inflight = Append(@, frame)]
    /\ last' = Did("send", i, frame, FALSE)
    /\ notified' = <<>>
    /\ UNCHANGED <<store, page, wsCurrent, timers, runs, server>>

\* the browser's task for a received message: it is dropped unless the socket
\* is OPEN, otherwise onmessage runs; a change of status to 'completed'
\* re-runs the status effect of the mounted ExecutionPage
MessageTask(i) ==
    /\ sockets[i].inflight # <<>>
    /\ LET frame == Head(sockets[i].inflight)
           r == onmessage(store, frame)
       IN  /\ sockets' = [sockets EXCEPT ![i].inflight = Tail(@)]
           /\ IF sockets[i].readyState = "OPEN"
              THEN /\ store' = r.store
                   /\ last' = Did("message", i, frame, r.threw)
                   /\ notified' = onmessageNotifies(frame)
                   /\ timers' = IF page = "execution" /\ store.status # r.store.status
                                THEN StatusEffect(r.store, timers) ELSE timers
                   /\ timers' <= MaxTimers
              ELSE /\ last' = Did("discard", i, frame, FALSE)
                   /\ notified' = <<>>
                   /\ UNCHANGED <<store, timers>>
    /\ UNCHANGED <<page, wsCurrent, runs, sent, server>>

Next ==
    \/ handleGenerate
    \/ \E p \in Routes : UserNavigate(p)
    \/ TimerFire
    \/ \E i \in DOMAIN sockets : SocketOpen(i)
    \/ \E i \in DOMAIN sockets : SocketClosed(i)
    \/ \E i \in DOMAIN sockets : \E frame \in AppFrames :
            sent < MaxAppMsgs /\ ServerSend(i, frame)
    \/ \E i \in DOMAIN sockets : MessageTask(i)

Spec == Init /\ [][Next]_vars

(***************************************************************************)
(* The reducer on one open connection: the run has been started, the       *)
(* socket of ExecutionPage is open, and the producer sends any frames.     *)
(***************************************************************************)
ReducerInit ==
    /\ store = setConnected(setWorkflowId(InitialStore, NewWorkflowId(1)), TRUE)
    /\ page = "execution"
    /\ sockets = <<[NewWebSocket(UrlOf(NewWorkflowId(1))) EXCEPT !.readyState = "OPEN"]>>
    /\ wsCurrent = 1
    /\ timers = 0
    /\ runs = 1
    /\ sent = 0
    /\ last = Did("open", 1, NoFrame, FALSE)
    /\ notified = <<"setConnected">>
    /\ server = NoServer

ReducerNext ==
    \/ \E frame \in Frames : ServerSend(1, frame)
    \/ MessageTask(1)

ReducerSpec == ReducerInit /\ [][ReducerNext]_vars

(***************************************************************************)
(* The mock server on one connection: every 1500 ms its interval sends the *)
(* next event of its script, stamped with an id, its own workflow id and   *)
(* the time, and clears itself once the script is exhausted or the socket  *)
(* has closed.  The results object { summary } is modelled by its summary. *)
(***************************************************************************)
events ==
    << StatusChange("initiated", Num(0)),
       AgentStart("agent_1", "ResearchAgent", "Researcher"),
       AgentThinking("agent_1", "Searching for relevant information..."),
       ToolCall("agent_1", "search_web"),
       StatusChange("running", Num(25)),
       ToolResult("agent_1", Data("topic", "MetaFlow")),
       AgentComplete("agent_1", "Found info on MetaFlow"),
       AgentStart("agent_2", "WriterAgent", "Writer"),
       StatusChange("running", Num(50)),
       AgentThinking("agent_2", "Drafting the report..."),
       StatusChange("running", Num(75)),
       AgentComplete("agent_2", "Report drafted."),
       WorkflowComplete("MetaFlow is a meta-automation platform.") >>

\* the envelope the interval builds for events[step]
event(step) == Stamped(events[step], "evt_" \o ToString(step), "workflow_0", step)

\* the interval as it would be if it advanced by two events at a time
ServerTick_SkipsEvent ==
    /\ server.interval
    /\ IF server.step < Len(events)
       THEN /\ Len(sockets[1].inflight) < MaxInflight
            /\ sockets' = IF sockets[1].readyState \in {"OPEN", "CLOSING"}
                          THEN [sockets EXCEPT ![1].inflight = Append(@, event(server.step + 1))]
                          ELSE sockets
            /\ server' = [server EXCEPT !.step = @ + 2]
            /\ last' = Did("send", 1, event(server.step + 1), FALSE)
       ELSE /\ server' = [server EXCEPT !.interval = FALSE]
            /\ sockets' = sockets
            /\ last' = Did("clearInterval", 1, NoFrame, FALSE)
    /\ notified' = <<>>
    /\ UNCHANGED <<store, page, wsCurrent, timers, runs, sent>>

\* the callback of setInterval: ws.send of the next event, or clearInterval;
\* what is sent once the client side is closed is lost
ServerTick ==
    /\ server.interval
    /\ IF server.step < Len(events)
       THEN /\ Len(sockets[1].inflight) < MaxInflight
            /\ sockets' = IF sockets[1].readyState \in {"OPEN", "CLOSING"}
                          THEN [sockets EXCEPT ![1].inflight = Append(@, event(server.step + 1))]
                          ELSE sockets
            /\ server' = [server EXCEPT !.step = @ + 1]
            /\ last' = Did("send", 1, event(server.step + 1), FALSE)
       ELSE /\ server' = [server EXCEPT !.interval = FALSE]
            /\ sockets' = sockets
            /\ last' = Did("clearInterval", 1, NoFrame, FALSE)
    /\ notified' = <<>>
    /\ UNCHANGED <<store, page, wsCurrent, timers, runs, sent>>

\* ws.on('close'): the server learns that the connection has closed
ServerClose ==
    /\ sockets[1].readyState \in {"CLOSING", "CLOSED"}
    /\ ~server.closed
    /\ server' = [server EXCEPT !.interval = FALSE, !.closed = TRUE]
    /\ last' = Did("serverclose", 1, NoFrame, FALSE)
    /\ notified' = <<>>
    /\ UNCHANGED <<store, page, sockets, wsCurrent, timers, runs, sent>>

ScriptInit ==
    /\ store = setConnected(setWorkflowId(InitialStore, NewWorkflowId(1)), TRUE)
    /\ page = "execution"
    /\ sockets = <<[NewWebSocket(UrlOf(NewWorkflowId(1))) EXCEPT !.readyState = "OPEN"]>>
    /\ wsCurrent = 1
    /\ timers = 0
    /\ runs = 1
    /\ sent = 0
    /\ last = Did("open", 1, NoFrame, FALSE)
    /\ notified = <<"setConnected">>
    /\ server = Connected

ScriptNext ==
    \/ ServerTick
    \/ ServerClose
    \/ MessageTask(1)
    \/ SocketClosed(1)
    \/ TimerFire

\* the interval keeps firing while it is set, and the browser runs the task
\* of every message it has received
ScriptSpec ==
    ScriptInit /\ [][ScriptNext]_vars /\ WF_vars(ServerTick) /\ WF_vars(MessageTask(1))

(***************************************************************************)
(* Properties.                                                             *)
(***************************************************************************)
\* the step just taken ran onmessage on an open socket
Handled == last.op = "message"
\* the frame is an object of a declared type
Declared(frame) == frame.text = "object" /\ frame.type \in DeclaredTypes
\* the frame cannot be decoded as an Event Envelope
Undecodable(frame) == frame.text # "object" \/ ~frame.payload.defined

\* C1: a message that cannot be decoded as an Event Envelope (not JSON, the
\* JSON values null or a number, an object without a payload) leaves every
\* field of the snapshot unchanged and leaves the connection open.
C1_UndecodableLeavesSnapshot ==
    [][(last'.op = "message" /\ Undecodable(last'.frame))
        => (store' = store /\ sockets'[last'.sock].readyState = "OPEN")]_vars

\* C2: an envelope is applied as a whole or not at all: when handleEvent did
\* not run to its end (it raised), no part of the envelope, not even the log
\* entry, is in the store.
C2_AllOrNothing ==
    [][(last'.op = "message" /\ last'.threw) => store' = store]_vars

\* C3: after a status_change, status is payload.status, and progress is
\* payload.percent_complete whenever that field is present, 0 included.
C3_StatusChangeSetsProgress ==
    (Handled /\ last.frame.type = "status_change" /\ last.frame.payload.defined)
        => /\ store.status = last.frame.payload.status
           /\ last.frame.payload.percent_complete.defined
                => store.progress = last.frame.payload.percent_complete.n

\* C4 (as claimed): results is null until the first workflow_complete is
\* processed, and once it is non-null no later envelope changes it.
C4_ResultsSetOnce ==
    [][/\ (store.results = Null /\ store'.results # Null)
            => (last'.op = "message" /\ last'.frame.type = "workflow_complete")
       /\ store.results # Null => store'.results = store.results]_vars

\* C4 (amended): results changes only when a workflow_complete envelope is
\* processed, and every processed workflow_complete sets it to its
\* payload.results, also when results was already set.
C4_ResultsOnlyByWorkflowComplete ==
    [][LET f == last'.frame
           completes == /\ last'.op = "message" /\ Declared(f)
                        /\ f.type = "workflow_complete" /\ f.payload.defined
       IN  /\ store'.results # store.results => completes
           /\ completes => store'.results = f.payload.results]_vars

\* a second workflow_complete has replaced the results of the first
C4_Witness ==
    /\ Handled /\ last.frame = WorkflowComplete("summary2")
    /\ store.results = "summary2"
    /\ \E i \in DOMAIN store.logs :
          /\ store.logs[i].type = "workflow_complete"
          /\ store.logs[i].payload.results = "summary1"

\* C5: when handleGenerate starts a new run, the snapshot has the initial
\* values: nothing of the previous run is carried over.
C5_NewRunStartsFresh ==
    last.op = "handleGenerate"
        => [store EXCEPT !.workflowId = Null, !.connected = FALSE] = InitialStore

\* the Agent Record an envelope dictates for an agent id that was not present
NewAgentRecord(f) ==
    LET p == f.payload
    IN  [id |-> p.agent_id,
         name |-> IF f.type = "agent_start" THEN p.agent_name ELSE "Unknown Agent",
         role |-> IF f.type = "agent_start" THEN p.role ELSE "Worker",
         status |-> CASE f.type = "agent_start" -> "running"
                      [] f.type = "agent_thinking" -> "thinking"
                      [] f.type = "agent_complete" -> "success"
                      [] f.type = "error" -> "failed"
                      [] OTHER -> "idle",
         thought |-> IF f.type = "agent_thinking" THEN p.thought ELSE Undefined,
         lastToolCall |-> IF f.type = "tool_call" THEN p.tool_name ELSE Undefined,
         output |-> IF f.type = "agent_complete" THEN p.output ELSE Undefined,
         logs |-> <<>>]

\* the step handles an envelope of one of `types` that names an absent agent
NamesNewAgent(types) ==
    /\ last'.op = "message" /\ last'.frame.text = "object"
    /\ last'.frame.type \in types
    /\ last'.frame.payload.defined
    /\ Truthy(last'.frame.payload.agent_id)
    /\ last'.frame.payload.agent_id \notin DOMAIN store.agents

AgentTypes == {"agent_start", "agent_thinking", "tool_call", "agent_complete", "error"}

C7_ConnectedMirrorsCurrentSocket ==
    sockets # <<>>
        => /\ sockets[Len(sockets)].readyState = "OPEN" => store.connected
           /\ sockets[Len(sockets)].readyState = "CLOSED" => ~store.connected

\* C8: one connection feeds the snapshot: every socket but the newest has
\* been closed by the time the newest exists, and every envelope that is
\* applied comes from the newest socket.
C8_OneConnectionFeedsSnapshot ==
    /\ \A i \in DOMAIN sockets :
          i < Len(sockets) => sockets[i].readyState \in {"CLOSING", "CLOSED"}
    /\ Handled => last.sock = Len(sockets)

\* the new socket feeds the store while the prior one is still closing
C8_Witness ==
    /\ Len(sockets) = 2 /\ Handled /\ last.sock = 2
    /\ sockets[1].readyState = "CLOSING"
    /\ sockets[1].url # sockets[2].url

\* C9: once the cleanup has disconnected a socket, a message arriving on it
\* changes nothing, and its close changes connected only.
C9_NoEffectAfterDisconnect ==
    [][/\ (last'.op \in {"message", "discard"} /\ last'.sock # wsCurrent)
            => store' = store
       /\ (last'.op = "close" /\ last'.sock # wsCurrent)
            => store' = [store EXCEPT !.connected = FALSE]]_vars

\* a frame in flight on a socket the cleanup has closed was dropped, after
\* the same socket had fed the store
C9_Witness ==
    /\ last.op = "discard" /\ last.sock # wsCurrent
    /\ sockets[last.sock].readyState = "CLOSING"
    /\ store.logs # <<>>

\* C10: handleEvent raises no exception for an envelope of a declared type,
\* whatever its payload, a missing payload object included.
C10_HandleEventNeverThrows ==
    (Handled /\ Declared(last.frame)) => ~last.threw

\* the entry of logs that a frame leaves once it has been parsed
LogEntry(f) == JSONparse(f).data

\* C11: an envelope whose type is none of the eight declared types changes
\* the snapshot only by being appended to logs as its last element.
C11_UnknownTypeOnlyLogs ==
    [][(/\ last'.op = "message" /\ last'.frame.text = "object"
        /\ last'.frame.type \notin DeclaredTypes)
        => store' = [store EXCEPT !.logs = Append(store.logs, LogEntry(last'.frame))]]_vars

\* an envelope of unknown type arrived third, in a run that has a status and
\* an agent
C11_Witness ==
    /\ Handled /\ last.frame = Obj("heartbeat", EmptyPayload)
    /\ Len(store.logs) = 3
    /\ store.logs[3] = LogEntry(last.frame)
    /\ store.status = "running"
    /\ DOMAIN store.agents # {}

\* C12: logs is the sequence of the decoded envelopes in arrival order: a
\* handled message that parses is appended as the last element, exactly once
\* and whatever its type, and no other step changes logs.
C12_LogsAreArrivalOrder ==
    [][IF last'.op = "message" /\ last'.frame.text # "garbage"
       THEN store'.logs = Append(store.logs, LogEntry(last'.frame))
       ELSE store'.logs = store.logs]_vars

\* three envelopes of different types are in logs in the order they arrived
C12_Witness ==
    store.logs = << LogEntry(StatusChange("running", Num(25))),
                    LogEntry(Obj("heartbeat", EmptyPayload)),
                    LogEntry(WorkflowComplete("summary1")) >>

\* C13: the subscribers of the store are notified exactly once per processed
\* envelope, after its whole effect, so they see no partly applied envelope.
C13_OneNotificationPerEnvelope ==
    (Handled /\ last.frame.text = "object") => Len(notified) = 1

\* C14: the open and close callbacks change connected only (to true and to
\* false), and no handled message changes connected.
C14_TransportChangesOnlyConnected ==
    [][/\ last'.op = "open" => store' = [store EXCEPT !.connected = TRUE]
       /\ last'.op = "close" => store' = [store EXCEPT !.connected = FALSE]
       /\ last'.op \in {"message", "discard"} => store'.connected = store.connected]_vars

\* the transport closed after the run had completed with results
C14_Witness ==
    /\ last.op = "close" /\ ~store.connected
    /\ store.status = "completed" /\ store.results = "summary1"
    /\ store.logs # <<>>

\* the log entry e sets the status of agent a
SetsStatus(e, a) ==
    /\ e.kind = "object" /\ e.payload.defined /\ e.payload.agent_id = a
    /\ e.type \in {"agent_start", "agent_thinking", "agent_complete", "error"}
    /\ Truthy(a)

\* the status an envelope of the given type dictates
Dictated(type) ==
    CASE type = "agent_start" -> "running"
      [] type = "agent_thinking" -> "thinking"
      [] type = "agent_complete" -> "success"
      [] type = "error" -> "failed"

Latest(idx) == CHOOSE i \in idx : \A j \in idx : j <= i

\* the status of agent a by the last status-setting envelope of logs
LastStatus(logs, a) ==
    LET idx == {i \in DOMAIN logs : SetsStatus(logs[i], a)}
    IN  IF idx = {} THEN "idle" ELSE Dictated(logs[Latest(idx)].type)

C15_FailedToRunning ==
    /\ Handled /\ last.frame = AgentStart("agent_1", "ResearchAgent", "Researcher")
    /\ Len(store.logs) >= 2
    /\ store.logs[Len(store.logs) - 1] = LogEntry(ErrorEvent("agent_1"))
    /\ store.agents["agent_1"].status = "running"

\* the key/value pairs a log entry extracts
Extracted(e) ==
    IF /\ e.kind = "object" /\ e.type = "tool_result"
       /\ e.payload.defined /\ e.payload.data_extracted.defined
    THEN e.payload.data_extracted.entries
    ELSE <<>>

KeysOf(e) == {Extracted(e)[j][1] : j \in DOMAIN Extracted(e)}

ValueIn(e, k) == Extracted(e)[Latest({j \in DOMAIN Extracted(e) : Extracted(e)[j][1] = k})][2]

\* C16: partialResults holds exactly the keys extracted so far, each with
\* the value of the most recent tool_result that contained it.
C16_PartialResultsOverwrite ==
    /\ DOMAIN store.partialResults = UNION {KeysOf(store.logs[i]) : i \in DOMAIN store.logs}
    /\ \A k \in DOMAIN store.partialResults :
          store.partialResults[k] =
              ValueIn(store.logs[Latest({i \in DOMAIN store.logs : k \in KeysOf(store.logs[i])})], k)

\* topic was overwritten by a later tool_result that left source as it was
C16_Witness ==
    /\ Handled /\ last.frame = ToolResult("agent_1", Data("topic", "MetaFlow"))
    /\ DOMAIN store.partialResults = {"topic", "source"}
    /\ store.partialResults["topic"] = "MetaFlow"
    /\ store.partialResults["source"] = "web"

\* C17: an error envelope with an agent_id sets that agent's status to
\* failed and, like one without agent_id, changes nothing else but logs; a
\* run that received only error envelopes does not have status failed.
C17_ErrorFailsOnlyAgent ==
    /\ [][(/\ last'.op = "message" /\ last'.frame.text = "object"
           /\ last'.frame.type = "error" /\ last'.frame.payload.defined)
          => LET a == last'.frame.payload.agent_id
                 logged == [store EXCEPT !.logs = Append(store.logs, LogEntry(last'.frame))]
             IN  IF Truthy(a)
                 THEN /\ [store' EXCEPT !.agents = store.agents] = logged
                      /\ DOMAIN store'.agents = DOMAIN store.agents \cup {a}
                      /\ store'.agents[a].status = "failed"
                      /\ \A b \in DOMAIN store.agents \ {a} :
                            store'.agents[b] = store.agents[b]
                 ELSE store' = logged]_vars
    /\ []((\A i \in DOMAIN store.logs : store.logs[i].type = "error")
            => store.status # "failed")

\* an agent failed in a running workflow, whose status and progress stayed
C17_Witness ==
    /\ Handled /\ last.frame = ErrorEvent("agent_2")
    /\ store.status = "running" /\ store.progress = 25
    /\ store.agents["agent_2"].status = "failed"
    /\ store.agents["agent_2"].thought = "Drafting"

\* C18: once workflowId has a non-null value, nothing changes it.
C18_WorkflowIdImmutable ==
    [][store.workflowId # Null => store'.workflowId = store.workflowId]_vars

\* C19: the set of agent ids only grows.
C19_AgentsNeverDeleted ==
    [][DOMAIN store.agents \subseteq DOMAIN store'.agents]_vars

\* the agent is still there after its connection closed
C19_Witness ==
    /\ last.op = "close" /\ ~store.connected
    /\ "agent_1" \in DOMAIN store.agents

\* C20: an agent_start for an agent id that is already present overwrites
\* name, role and status with its own values, keeps one record for the id,
\* and is logged like the first.
C20_SecondAgentStartOverwrites ==
    [][(/\ last'.op = "message" /\ last'.frame.text = "object"
        /\ last'.frame.type = "agent_start" /\ last'.frame.payload.defined
        /\ last'.frame.payload.agent_id \in DOMAIN store.agents)
        => LET p == last'.frame.payload
           IN  /\ store'.agents =
                    [store.agents EXCEPT ![p.agent_id] =
                        [@ EXCEPT !.name = p.agent_name, !.role = p.role,
                                  !.status = "running"]]
               /\ store'.logs = Append(store.logs, LogEntry(last'.frame))]_vars

\* two agent_start envelopes for agent_1: the record has the second's values
C20_Witness ==
    /\ store.logs = << LogEntry(AgentStart("agent_1", "ResearchAgent", "Researcher")),
                       LogEntry(AgentStart("agent_1", "WriterAgent", "Writer")) >>
    /\ DOMAIN store.agents = {"agent_1"}
    /\ store.agents["agent_1"].name = "WriterAgent"
    /\ store.agents["agent_1"].role = "Writer"
    /\ store.agents["agent_1"].status = "running"

\* the fields of the snapshot that the envelopes are folded into
Folded(s) ==
    [status |-> s.status, progress |-> s.progress, agents |-> s.agents,
     partialResults |-> s.partialResults, results |-> s.results]

\* another id, and a timestamp on the other side of the twin's log entries
OtherId(id) == IF id = "evt_0" THEN "evt_2" ELSE "evt_0"
OtherTimestamp(timestamp) == IF timestamp >= 1 THEN 0 ELSE 2

\* the log with the id and timestamp of every envelope replaced
Restamp(logs, id, timestamp) ==
    [i \in DOMAIN logs |->
        IF logs[i].kind = "object"
        THEN [logs[i] EXCEPT !.id = id, !.timestamp = timestamp]
        ELSE logs[i]]

\* C21: id and timestamp do not matter: whenever an envelope is handled, a
\* run that had received the same types and payloads under other ids and
\* timestamps, and now receives this envelope under another id and
\* timestamp, ends with the same status, progress, agents, partialResults
\* and results, and differs only in the log entries it stored.
C21_TimestampAndIdIgnored ==
    [][(last'.op = "message" /\ last'.frame.text = "object")
        => LET twin == [store EXCEPT !.logs = Restamp(store.logs, "evt_1", 1)]
               other == Stamped(last'.frame, OtherId(last'.frame.id),
                                last'.frame.workflow_id,
                                OtherTimestamp(last'.frame.timestamp))
                 r == onmessage(twin, other)
             IN  /\ Folded(r.store) = Folded(store')
                 /\ r.threw = last'.threw
                 /\ r.store.logs = Append(twin.logs, LogEntry(other))
                 /\ r.store.connected = store'.connected
                 /\ r.store.workflowId = store'.workflowId]_vars

\* an envelope with an earlier timestamp arrived second and was applied second
C21_Witness ==
    /\ Handled
    /\ store.logs = << LogEntry(StatusChange("running", Num(25))),
                       LogEntry(Stamped(StatusChange("paused", UndefNum), "evt_0", "workflow_1", 0)) >>
    /\ store.logs[1].timestamp > store.logs[2].timestamp
    /\ store.status = "paused" /\ store.progress = 25

\* a workflow_id that equals the snapshot's workflowId if wf does not, and
\* differs from it if wf equals it
OtherWorkflowId(wf, workflowId) == IF wf = workflowId THEN "workflow_0" ELSE workflowId

\* C29: workflow_id does not matter: whenever an envelope is handled, the
\* same envelope with a workflow_id equal to the snapshot's workflowId
\* instead of different from it, or different instead of equal, has the
\* same effect on status, progress, agents, partialResults and results;
\* workflowId itself is left as it was.
C29_WorkflowIdIgnored ==
    [][(last'.op = "message" /\ last'.frame.text = "object")
        => /\ store'.workflowId = store.workflowId
           /\ LET other == Stamped(last'.frame, last'.frame.id,
                                    OtherWorkflowId(last'.frame.workflow_id, store.workflowId),
                                    last'.frame.timestamp)
                   r == onmessage(store, other)
               IN  /\ other.workflow_id # last'.frame.workflow_id
                   /\ Folded(r.store) = Folded(store')
                   /\ r.threw = last'.threw
                   /\ r.store.workflowId = store.workflowId]_vars

\* an envelope of another run has changed an agent of this run
C29_Witness ==
    /\ Handled
    /\ last.frame = Stamped(ToolCall("agent_1", "search_web"), "evt_1", "workflow_0", 1)
    /\ last.frame.workflow_id # store.workflowId
    /\ Len(store.logs) = 2
    /\ store.logs[1] = LogEntry(AgentStart("agent_1", "ResearchAgent", "Researcher"))
    /\ store.agents["agent_1"].lastToolCall = "search_web"
    /\ store.agents["agent_1"].name = "ResearchAgent"

\* C22: with an absent endpoint (null or the empty string) the hook creates
\* no socket and changes nothing: entering ExecutionPage without a
\* workflowId leaves sockets and the snapshot as they were, and as long as
\* there is no workflowId there is no socket and the snapshot is the initial
\* one, connected false.
C22_AbsentEndpointIsNoOp ==
    /\ [][(page # "execution" /\ page' = "execution" /\ ~Truthy(store'.workflowId))
            => (sockets' = sockets /\ wsCurrent' = 0 /\ store' = store)]_vars
    /\ [](\A url \in {Null, ""} :
            Effect(sockets, url) = [sockets |-> sockets, wsCurrent |-> 0])
    /\ [](store.workflowId = Null => (sockets = <<>> /\ store = InitialStore))

\* ExecutionPage was entered before any run was started
C22_Witness ==
    /\ page = "execution" /\ last.op = "navigate"
    /\ store.workflowId = Null
    /\ sockets = <<>> /\ wsCurrent = 0 /\ ~store.connected

\* handleEvent applied to a sequence of envelopes, one at a time
RECURSIVE Fold(_, _)
Fold(s, envelopes) ==
    IF envelopes = <<>> THEN s
    ELSE Fold(handleEvent(s, Head(envelopes)).store, Tail(envelopes))

\* the store in which the reducer specification starts
Started == setConnected(setWorkflowId(InitialStore, NewWorkflowId(1)), TRUE)

C24_NoAutomaticReconnect ==
    [][/\ Len(sockets') >= Len(sockets)
       /\ Len(sockets') > Len(sockets)
            => /\ last'.op \in {"handleGenerate", "navigate"}
               /\ page # "execution" /\ page' = "execution"
               /\ Len(sockets') = Len(sockets) + 1
       /\ \A i \in DOMAIN sockets :
            sockets[i].readyState \in {"CLOSING", "CLOSED"}
                => sockets'[i].readyState \in {"CLOSING", "CLOSED"}
       /\ (~store.connected /\ store'.connected)
            => (last'.op = "open" /\ sockets[last'.sock].readyState = "CONNECTING")]_vars

\* the connection of the mounted page was lost and, a step later, there is
\* still no other socket and connected is false
C24_Witness ==
    /\ page = "execution" /\ last.op = "discard" /\ last.sock = wsCurrent
    /\ Len(sockets) = 1
    /\ sockets[wsCurrent].readyState = "CLOSED"
    /\ ~store.connected

\* the fields of an Agent Record that an envelope of the given type carries
Carried(type) ==
    CASE type = "agent_start" -> {"name", "role", "status"}
      [] type = "agent_thinking" -> {"status", "thought"}
      [] type = "tool_call" -> {"lastToolCall"}
      [] type = "agent_complete" -> {"status", "output"}
      [] type = "error" -> {"status"}
      [] OTHER -> {}

\* C25: an envelope that names an agent already present leaves every field
\* of its record that the envelope's type does not carry as it was; so
\* thought, lastToolCall and output persist until an agent_thinking, a
\* tool_call, an agent_complete overwrites them.
C25_FieldsPersist ==
    [][(/\ last'.op = "message" /\ last'.frame.text = "object"
        /\ last'.frame.payload.defined
        /\ last'.frame.payload.agent_id \in DOMAIN store.agents)
        => LET a == last'.frame.payload.agent_id
           IN  /\ a \in DOMAIN store'.agents
               /\ \A f \in DOMAIN store.agents[a] \ Carried(last'.frame.type) :
                    store'.agents[a][f] = store.agents[a][f]]_vars

\* the agent completed and still has the thought and the tool of before
C25_Witness ==
    /\ Handled /\ last.frame = AgentComplete("agent_1", "Found info")
    /\ store.agents["agent_1"].status = "success"
    /\ store.agents["agent_1"].output = "Found info"
    /\ store.agents["agent_1"].thought = "Searching"
    /\ store.agents["agent_1"].lastToolCall = "search_web"

\* C26: a handled message changes at most the record of the agent its
\* payload names: every other record is the same before and after, no other
\* record appears, and an envelope that is not an agent event (status_change,
\* tool_result, workflow_complete, unknown types) changes no record at all.
C26_AgentIsolation ==
    [][last'.op = "message"
        => LET f == last'.frame
               named == IF f.text = "object" /\ f.payload.defined /\ f.type \in AgentTypes
                        THEN {f.payload.agent_id} ELSE {}
           IN  /\ \A b \in DOMAIN store.agents \ named :
                    b \in DOMAIN store'.agents /\ store'.agents[b] = store.agents[b]
               /\ DOMAIN store'.agents \subseteq DOMAIN store.agents \cup named]_vars

\* agent_2 started thinking and the record of agent_1 is as it was
C26_Witness ==
    /\ Handled /\ last.frame = AgentThinking("agent_2", "Drafting")
    /\ DOMAIN store.agents = {"agent_1", "agent_2"}
    /\ store.agents["agent_2"].status = "thinking"
    /\ store.agents["agent_1"].status = "success"
    /\ store.agents["agent_1"].output = "Found info"
    /\ store.agents["agent_1"].thought = Undefined

\* C28: a workflow_complete envelope sets status to completed and results to
\* payload.results, is logged, and changes nothing else: progress, agents
\* and partialResults stay, so status completed goes with a progress below
\* 100.
C28_WorkflowCompleteKeepsProgress ==
    [][(/\ last'.op = "message" /\ last'.frame.text = "object"
        /\ last'.frame.type = "workflow_complete" /\ last'.frame.payload.defined)
        => store' = [store EXCEPT !.logs = Append(store.logs, LogEntry(last'.frame)),
                                  !.status = "completed",
                                  !.results = last'.frame.payload.results]]_vars

\* the workflow completed at progress 25
C28_Witness ==
    /\ Handled /\ last.frame = WorkflowComplete("summary1")
    /\ store.status = "completed" /\ store.results = "summary1"
    /\ store.progress = 25

\* C27: starting a new run and entering ExecutionPage schedules no
\* navigation to the results page: the new run has had no workflow_complete.
C27_NavigatesOnlyForCurrentRun ==
    [][last'.op = "handleGenerate" => timers' = timers]_vars

\* the snapshot after the whole script
Done ==
    /\ store.status = "completed"
    /\ store.results = "MetaFlow is a meta-automation platform."
    /\ store.progress = 75
    /\ DOMAIN store.agents = {"agent_1", "agent_2"}
    /\ store.agents["agent_1"].status = "success"
    /\ store.agents["agent_2"].status = "success"
    /\ store.partialResults["topic"] = "MetaFlow"
    /\ Len(store.logs) = Len(events)

\* the connection left the state OPEN before the workflow had completed
Lost == sockets[1].readyState # "OPEN" /\ store.status # "completed"

\* C30: the envelopes the client has handled are the first events of the
\* script, once each and in script order; the frames in flight are the
\* events that follow, in order, and while the connection is open nothing
\* the server has sent is missing; the server stops at the end of the
\* script and when it has seen the close, and then sends nothing more;
\* unless the connection is lost before, the snapshot eventually is the one
\* of the completed script, with 13 log entries.
C30_ScriptRunsToCompletion ==
    /\ [](/\ server.step <= Len(events)
          /\ \A i \in DOMAIN store.logs : store.logs[i] = LogEntry(event(i))
          /\ \E k \in Len(store.logs)..server.step :
                /\ k + Len(sockets[1].inflight) <= server.step
                /\ \A j \in DOMAIN sockets[1].inflight :
                      sockets[1].inflight[j] = event(k + j)
                /\ sockets[1].readyState = "OPEN"
                      => (k = Len(store.logs) /\ k + Len(sockets[1].inflight) = server.step)
          /\ server.closed => ~server.interval)
    /\ [][/\ ~server.interval
                => /\ server'.step = server.step /\ ~server'.interval
                   /\ Len(sockets'[1].inflight) <= Len(sockets[1].inflight)
          /\ server'.step \in {server.step, server.step + 1}]_vars
    /\ <>(Done \/ Lost)

\* the script is exhausted, the interval cleared, the connection still open
C30_Witness ==
    /\ Done
    /\ server.step = Len(events) /\ ~server.interval /\ ~server.closed
    /\ sockets[1].readyState = "OPEN" /\ sockets[1].inflight = <<>>
====
